---- MODULE Spec2Model ----
(***************************************************************************)
(* Shared authentication state of the ORDISS end-to-end suite.             *)
(*                                                                         *)
(* Spec     : globalSetup (tests/auth/auth.setup.js) run by several        *)
(*            callers against the one snapshot file                        *)
(*            playwright/.auth/user.json, together with the clock, the     *)
(*            operator's rm of the file and workers that read the file.    *)
(* SpecRun  : one run of the test runner under playwright.config.js: the   *)
(*            setup project's test 'authenticate once', the tests of the   *)
(*            dependent project, and the runner's retries.                  *)
(* SpecLive : Spec with the progress that its time-limited steps make.      *)
(* SpecSeq  : calls of globalSetup made one after the other.                *)
(* SpecReg  : collection and data loading of tests/unit-type.spec.js.       *)
(* SpecNotFound : ErrorHandler.handleNotFound (utils/error-handler.js).     *)
(* SpecNetwork  : ErrorHandler.handleNetworkError.                          *)
(* SpecTimeout  : ErrorHandler.handleTimeout.                               *)
(* SpecClick    : BasePage.clickButton (pages/base.page.js).                *)
(* SpecHandling : BasePage.withErrorHandling.                               *)
(* SpecLogger   : the level filter of Logger (utils/logger.js).             *)
(* SpecChecked  : setChecked (utils/csv-reader.js) called repeatedly on     *)
(*                one checkbox.                                             *)
(* SpecForm     : the Depot and Workshop checkboxes of                      *)
(*                UnitTypeFormPage.fillForm.                                *)
(***************************************************************************)
EXTENDS Integers, FiniteSets, Sequences, TLC

(* ------------------------------ bounds --------------------------------- *)

\* number of processes that may run globalSetup at the same time
NumCallers == 2

\* how many clock ticks a behaviour may contain
MaxTicks == 2

\* number of tests in the project that depends on the setup
NumTests == 2

\* the largest number of records in test-data/unit-types.csv
MaxRows == 4

\* the largest maxRetries handleNotFound is called with
MaxAttempts == 4

\* the number of logging calls made on one Logger
MaxLogCalls == 3

\* the number of calls of setChecked made in a row on one checkbox
MaxSetCalls == 2

(* ------------------------- program constants --------------------------- *)

\* auth.setup.js:42   if (ageInMinutes < 60)
TTL == 60

\* the clock advances in steps of half the TTL, so that ages below, at and
\* above the TTL all occur
Tick == TTL \div 2

\* playwright.config.js:23   retries: parseInt(process.env.RETRIES) || 2
Retries == 2

\* error-handler.js:213   waitForTimeout(300 * attempt)
BackoffBase == 300

\* error-handler.js:254   delay = 500
DefaultDelay == 500

\* base.page.js:135   options.retries || 3
DefaultRetries == 3

\* base.page.js:154   waitForTimeout(300)
ClickRetryWait == 300

Callers == 1..NumCallers

Tests == 1..NumTests

(* ------------------------------- state --------------------------------- *)

VARIABLES
    now,        \* Date.now(), in minutes
    file,       \* the file at authFile: [exists, mtime, kind]
    orphan,     \* callers whose open file descriptor refers to a removed file
    pc,         \* the line of globalSetup each caller is suspended at
    outcome,    \* how the caller's latest call ended: none / hit / ok / error
    failedAt,   \* the step of the latest call that threw, or "none"
    thrown,     \* an exception is propagating out of the current call
    browser,    \* the browser of the latest call: none / open / closed
    acq,        \* number of acquisitions the latest call has started
    wrote,      \* the latest call has modified the file
    waitsOn,    \* while a call is in progress: the acquisitions that were in
                \* flight when it started and have not finished since
    readObs,    \* what the last reader of the file saw
    setupPhase, \* the setup test: pending / login / save / passed / failed
    setupRetry, \* the retry index of the setup test's current attempt
    setupLogins,\* logins the setup test has attempted in this run
    authSaved,  \* the setup test has saved the storage state
    testPhase,  \* each dependent test: pending / beforeEach / running /
                \* passed / failed / skipped
    testRetry,  \* the retry index of each dependent test's current attempt
    testLogins, \* interactive logins performed by the dependent tests
    regPhase,   \* unit-type.spec.js: start / unloaded / describe / collected
                \* / loaded / hookFailed
    csvFile,    \* test-data/unit-types.csv: [present, rows]
    testData,   \* the module variable testData of unit-type.spec.js
    created,    \* the records for which a create test has been registered
    placeholder,\* the test 'No test data available' has been registered
    nfPc,       \* handleNotFound: idle / loop / try / wait / returned / thrown
    nfMax,      \* its argument maxRetries
    nfAttempt,  \* its loop variable attempt
    nfCalls,    \* how each invocation of action settled, in order
    nfWaits,    \* the waits between attempts, in milliseconds, in order
    nfResult,   \* the value returned or the error thrown by the call
    call        \* the call of the helper a specification is about, as the
                \* record of its arguments, its locals and what it has done
                \* so far; its fields are those of NetInit, TmoInit, ClkInit,
                \* WehInit, LogInit, BoxInit or FormInit

authVars == <<now, file, orphan, pc, outcome, failedAt, thrown, browser, acq,
              wrote, waitsOn, readObs>>

runVars == <<setupPhase, setupRetry, setupLogins, authSaved, testPhase,
             testRetry, testLogins>>

regVars == <<regPhase, csvFile, testData, created, placeholder>>

nfVars == <<nfPc, nfMax, nfAttempt, nfCalls, nfWaits, nfResult>>

callVars == <<call>>

vars == <<authVars, runVars, regVars, nfVars, callVars>>

\* what the steps of globalSetup and of its environment leave alone
nonAuthVars == <<runVars, regVars, nfVars, callVars>>

\* what the steps of the test runner leave alone
nonRunVars == <<authVars, regVars, nfVars, callVars>>

\* what the collection of unit-type.spec.js leaves alone
nonRegVars == <<authVars, runVars, nfVars, callVars>>

\* what handleNotFound leaves alone
nonNfVars == <<authVars, runVars, regVars, callVars>>

\* what the helper a specification is about leaves alone
nonCallVars == <<authVars, runVars, regVars, nfVars>>

Absent == [exists |-> FALSE, mtime |-> 0, kind |-> "absent"]

\* a complete snapshot written by an earlier run at time 0
OldSnapshot == [exists |-> TRUE, mtime |-> 0, kind |-> "complete"]

\* the steps between "observed absent or stale" and "finished writing the file"
AcquiringPcs == {"launch", "context", "login", "save", "write"}

\* the steps of the acquisition before the state is saved (lines 54-87)
LoginSteps == {"launch", "context", "login"}

InFlight(c) == pc[c] \in AcquiringPcs

\* the caller has started an acquisition whose result it has not yet returned
Acquirer(c) == pc[c] \in AcquiringPcs \cup {"catch", "finally"}

Finished(c) == pc[c] = "idle" /\ outcome[c] # "none"

\* auth.setup.js:40  (Date.now() - stats.mtimeMs) / 1000 / 60
ageInMinutes(mtime) == now - mtime

\* a unit slip: the age left in seconds and compared with 60
IsRecentSeconds(age) == age * 60 < TTL

\* the comparison turned round: only an old file counts as recent
IsRecentReversed(age) == age > TTL

\* an off-by-one slip: a file exactly as old as the limit still counts
IsRecentInclusive(age) == age <= TTL

\* auth.setup.js:42  ageInMinutes < 60
IsRecent(age) == age < TTL

\* the three classes of the snapshot at the storage path
NoSession == ~file.exists

FreshSession == file.exists /\ now - file.mtime < TTL

StaleSession == file.exists /\ now - file.mtime >= TTL

(* ------------------------------- Init ---------------------------------- *)

AuthInit ==
    /\ now = 0
    /\ file \in {Absent, OldSnapshot}
    /\ orphan = {}
    /\ pc = [c \in Callers |-> "idle"]
    /\ outcome = [c \in Callers |-> "none"]
    /\ failedAt = [c \in Callers |-> "none"]
    /\ thrown = [c \in Callers |-> FALSE]
    /\ browser = [c \in Callers |-> "none"]
    /\ acq = [c \in Callers |-> 0]
    /\ wrote = [c \in Callers |-> FALSE]
    /\ waitsOn = [c \in Callers |-> {}]
    /\ readObs = "none"

\* caller c ends its call: it waits on nothing any more, and whoever was
\* counted as waiting on it is released
Release(c) == [d \in Callers |-> IF d = c THEN {} ELSE waitsOn[d] \ {c}]

(* --------------------------- globalSetup ------------------------------- *)

\* auth.setup.js:34-38  the call starts; fs.existsSync(authFile)
ExistsSync(c) ==
    /\ pc[c] = "idle"
    /\ pc' = [pc EXCEPT ![c] = IF file.exists THEN "stat" ELSE "launch"]
    /\ outcome' = [outcome EXCEPT ![c] = "none"]
    /\ failedAt' = [failedAt EXCEPT ![c] = "none"]
    /\ thrown' = [thrown EXCEPT ![c] = FALSE]
    /\ browser' = [browser EXCEPT ![c] = "none"]
    /\ acq' = [acq EXCEPT ![c] = 0]
    /\ wrote' = [wrote EXCEPT ![c] = FALSE]
    /\ waitsOn' = [waitsOn EXCEPT ![c] = {d \in Callers \ {c} : Acquirer(d)}]
    /\ UNCHANGED <<now, file, orphan, readObs>>
    /\ UNCHANGED nonAuthVars

\* the call leaves globalSetup by an exception thrown at `step`, outside the
\* try block
ThrowOutsideTry(c, step) ==
    /\ pc' = [pc EXCEPT ![c] = "idle"]
    /\ outcome' = [outcome EXCEPT ![c] = "error"]
    /\ failedAt' = [failedAt EXCEPT ![c] = step]
    /\ waitsOn' = Release(c)

\* a cache hit that rewrites the file it reuses
StatSyncTouching(c) ==
    /\ pc[c] = "stat"
    /\ IF ~file.exists
         THEN /\ ThrowOutsideTry(c, "stat")
              /\ UNCHANGED file
         ELSE IF IsRecent(ageInMinutes(file.mtime))
                THEN /\ pc' = [pc EXCEPT ![c] = "idle"]
                     /\ outcome' = [outcome EXCEPT ![c] = "hit"]
                     /\ waitsOn' = Release(c)
                     /\ file' = [file EXCEPT !.mtime = now]
                     /\ UNCHANGED failedAt
                ELSE /\ pc' = [pc EXCEPT ![c] = "launch"]
                     /\ UNCHANGED <<file, outcome, failedAt, waitsOn>>
    /\ UNCHANGED <<now, orphan, thrown, browser, acq, wrote, readObs>>
    /\ UNCHANGED nonAuthVars

\* auth.setup.js:39-50  fs.statSync(authFile), the age and the return.
\* statSync throws ENOENT when the file has gone since existsSync.
StatSync(c) ==
    /\ pc[c] = "stat"
    /\ IF ~file.exists
         THEN ThrowOutsideTry(c, "stat")
         ELSE IF IsRecent(ageInMinutes(file.mtime))
                THEN /\ pc' = [pc EXCEPT ![c] = "idle"]
                     /\ outcome' = [outcome EXCEPT ![c] = "hit"]
                     /\ waitsOn' = Release(c)
                     /\ UNCHANGED failedAt
                ELSE /\ pc' = [pc EXCEPT ![c] = "launch"]
                     /\ UNCHANGED <<outcome, failedAt, waitsOn>>
    /\ UNCHANGED <<now, file, orphan, thrown, browser, acq, wrote, readObs>>
    /\ UNCHANGED nonAuthVars

\* auth.setup.js:52-54  the acquisition starts: chromium.launch, before the
\* try block
Launch(c) ==
    /\ pc[c] = "launch"
    /\ acq' = [acq EXCEPT ![c] = acq[c] + 1]
    /\ \E ok \in BOOLEAN :
         IF ok
           THEN /\ pc' = [pc EXCEPT ![c] = "context"]
                /\ browser' = [browser EXCEPT ![c] = "open"]
                /\ UNCHANGED <<outcome, failedAt, waitsOn>>
           ELSE /\ ThrowOutsideTry(c, "launch")
                /\ UNCHANGED browser
    /\ UNCHANGED <<now, file, orphan, thrown, wrote, readObs>>
    /\ UNCHANGED nonAuthVars

\* auth.setup.js:55-56  browser.newContext and context.newPage, before the
\* try block: a failure reaches neither catch nor finally
NewContext(c) ==
    /\ pc[c] = "context"
    /\ \E ok \in BOOLEAN :
         IF ok
           THEN /\ pc' = [pc EXCEPT ![c] = "login"]
                /\ UNCHANGED <<outcome, failedAt, waitsOn>>
           ELSE ThrowOutsideTry(c, "context")
    /\ UNCHANGED <<now, file, orphan, thrown, browser, acq, wrote, readObs>>
    /\ UNCHANGED nonAuthVars

\* the state is saved before the login is known to have succeeded
LoginSavingFirst(c) ==
    /\ pc[c] = "login"
    /\ file' = [exists |-> TRUE, mtime |-> now, kind |-> "complete"]
    /\ wrote' = [wrote EXCEPT ![c] = TRUE]
    /\ \E ok \in BOOLEAN :
         IF ok
           THEN /\ pc' = [pc EXCEPT ![c] = "save"]
                /\ UNCHANGED <<failedAt, thrown>>
           ELSE /\ pc' = [pc EXCEPT ![c] = "catch"]
                /\ failedAt' = [failedAt EXCEPT ![c] = "login"]
                /\ thrown' = [thrown EXCEPT ![c] = TRUE]
    /\ UNCHANGED <<now, orphan, outcome, browser, acq, waitsOn, readObs>>
    /\ UNCHANGED nonAuthVars

\* auth.setup.js:64-87  the login sequence in the browser: goto, the clicks,
\* the fills and the waits. Any of them may throw; none touches the file.
Login(c) ==
    /\ pc[c] = "login"
    /\ \E ok \in BOOLEAN :
         IF ok
           THEN /\ pc' = [pc EXCEPT ![c] = "save"]
                /\ UNCHANGED <<failedAt, thrown>>
           ELSE /\ pc' = [pc EXCEPT ![c] = "catch"]
                /\ failedAt' = [failedAt EXCEPT ![c] = "login"]
                /\ thrown' = [thrown EXCEPT ![c] = TRUE]
    /\ UNCHANGED <<now, file, orphan, outcome, browser, acq, wrote, waitsOn,
                   readObs>>
    /\ UNCHANGED nonAuthVars

\* auth.setup.js:89-96  mkdir of the directory, then context.storageState
\* opens authFile itself for writing: the file is created or truncated in
\* place, there is no temporary file and no rename
SaveOpen(c) ==
    /\ pc[c] = "save"
    /\ \E ok \in BOOLEAN :
         IF ok
           THEN /\ pc' = [pc EXCEPT ![c] = "write"]
                /\ file' = [exists |-> TRUE, mtime |-> now, kind |-> "partial"]
                /\ wrote' = [wrote EXCEPT ![c] = TRUE]
                /\ UNCHANGED <<failedAt, thrown>>
           ELSE /\ pc' = [pc EXCEPT ![c] = "catch"]
                /\ failedAt' = [failedAt EXCEPT ![c] = "save"]
                /\ thrown' = [thrown EXCEPT ![c] = TRUE]
                /\ UNCHANGED <<file, wrote>>
    /\ UNCHANGED <<now, orphan, outcome, browser, acq, waitsOn, readObs>>
    /\ UNCHANGED nonAuthVars

\* the content a write leaves in the file: the writer's own payload, or, when
\* another writer has written into the same file since this one opened it, a
\* mix of both whenever the two payloads differ in length
WrittenKinds == IF file.kind = "partial" THEN {"complete"}
                ELSE {"complete", "corrupt"}

\* the write keeps the modification time the file had
StaleWriteTime == file.mtime

\* the modification time a completed write leaves on the file
WriteTime == now

\* auth.setup.js:96-97  storageState writes the serialized state and closes
\* the file. A write through a descriptor whose file was removed meanwhile
\* changes nothing at authFile; a failing write leaves the truncated file.
SaveWrite(c) ==
    /\ pc[c] = "write"
    /\ orphan' = orphan \ {c}
    /\ \E ok \in BOOLEAN :
         IF ok
           THEN /\ pc' = [pc EXCEPT ![c] = "finally"]
                /\ IF c \in orphan
                     THEN UNCHANGED file
                     ELSE \E k \in WrittenKinds :
                            file' = [exists |-> TRUE, mtime |-> WriteTime,
                                     kind |-> k]
                /\ UNCHANGED <<failedAt, thrown>>
           ELSE /\ pc' = [pc EXCEPT ![c] = "catch"]
                /\ failedAt' = [failedAt EXCEPT ![c] = "save"]
                /\ thrown' = [thrown EXCEPT ![c] = TRUE]
                /\ UNCHANGED file
    /\ UNCHANGED <<now, outcome, browser, acq, wrote, waitsOn, readObs>>
    /\ UNCHANGED nonAuthVars

\* the catch block ends normally: the exception is dropped
CatchSwallow(c) ==
    /\ pc[c] = "catch"
    /\ pc' = [pc EXCEPT ![c] = "finally"]
    /\ thrown' = [thrown EXCEPT ![c] = FALSE]
    /\ UNCHANGED <<now, file, orphan, outcome, failedAt, browser, acq, wrote,
                   waitsOn, readObs>>
    /\ UNCHANGED nonAuthVars

\* auth.setup.js:98-100  console.error, then throw error: the exception keeps
\* propagating
Catch(c) ==
    /\ pc[c] = "catch"
    /\ pc' = [pc EXCEPT ![c] = "finally"]
    /\ UNCHANGED <<now, file, orphan, outcome, failedAt, thrown, browser, acq,
                   wrote, waitsOn, readObs>>
    /\ UNCHANGED nonAuthVars

\* auth.setup.js:101-104  browser.close, then globalSetup returns or throws
Finally(c) ==
    /\ pc[c] = "finally"
    /\ browser' = [browser EXCEPT ![c] = "closed"]
    /\ pc' = [pc EXCEPT ![c] = "idle"]
    /\ outcome' = [outcome EXCEPT ![c] = IF thrown[c] THEN "error" ELSE "ok"]
    /\ thrown' = [thrown EXCEPT ![c] = FALSE]
    /\ waitsOn' = Release(c)
    /\ UNCHANGED <<now, file, orphan, failedAt, acq, wrote, readObs>>
    /\ UNCHANGED nonAuthVars

(* ---------------------------- environment ------------------------------ *)

\* README.md:82-86  rm playwright/.auth/user.json
Invalidate ==
    /\ file.exists
    /\ file' = Absent
    /\ orphan' = orphan \cup {c \in Callers : pc[c] = "write"}
    /\ UNCHANGED <<now, pc, outcome, failedAt, thrown, browser, acq, wrote,
                   waitsOn, readObs>>
    /\ UNCHANGED nonAuthVars

\* playwright.config.js:39-40  a worker restores the session from the file
ReadStorageState ==
    /\ readObs' = IF file.exists THEN file.kind ELSE "absent"
    /\ UNCHANGED <<now, file, orphan, pc, outcome, failedAt, thrown, browser,
                   acq, wrote, waitsOn>>
    /\ UNCHANGED nonAuthVars

\* time passes
ClockTick ==
    /\ now + Tick <= MaxTicks * Tick
    /\ now' = now + Tick
    /\ UNCHANGED <<file, orphan, pc, outcome, failedAt, thrown, browser, acq,
                   wrote, waitsOn, readObs>>
    /\ UNCHANGED nonAuthVars

globalSetup(c) ==
    \/ ExistsSync(c)
    \/ StatSync(c)
    \/ Launch(c)
    \/ NewContext(c)
    \/ Login(c)
    \/ SaveOpen(c)
    \/ SaveWrite(c)
    \/ Catch(c)
    \/ Finally(c)

AuthNext ==
    \/ \E c \in Callers : globalSetup(c)
    \/ Invalidate
    \/ ReadStorageState
    \/ ClockTick

(* ---------------------------- test runner ------------------------------ *)

RunInit ==
    /\ setupPhase = "pending"
    /\ setupRetry = 0
    /\ setupLogins = 0
    /\ authSaved = FALSE
    /\ testPhase = [t \in Tests |-> "pending"]
    /\ testRetry = [t \in Tests |-> 0]
    /\ testLogins = 0

\* the runner grants one retry more than configured
CanRetryOnceMore(r) == r <= Retries

\* playwright.config.js:23  a failed test is run again while its retry index
\* is below retries
CanRetry(r) == r < Retries

\* the setup test's attempt has failed: the runner retries it or gives up
SetupAttemptFailed ==
    IF CanRetry(setupRetry)
      THEN /\ setupRetry' = setupRetry + 1
           /\ setupPhase' = "pending"
      ELSE /\ setupPhase' = "failed"
           /\ UNCHANGED setupRetry

\* playwright.config.js:45-51, part_001:5-8  an attempt of 'authenticate once'
\* starts on a fresh page without storage state
SetupStart ==
    /\ setupPhase = "pending"
    /\ setupPhase' = "login"
    /\ UNCHANGED <<setupRetry, setupLogins, authSaved, testPhase, testRetry,
                   testLogins>>
    /\ UNCHANGED nonRunVars

\* part_001:9-12  loginPage.login(...)
SetupLogin ==
    /\ setupPhase = "login"
    /\ setupLogins' = setupLogins + 1
    /\ \E ok \in BOOLEAN :
         IF ok
           THEN /\ setupPhase' = "save"
                /\ UNCHANGED setupRetry
           ELSE SetupAttemptFailed
    /\ UNCHANGED <<authSaved, testPhase, testRetry, testLogins>>
    /\ UNCHANGED nonRunVars

\* part_001:15  page.context().storageState({ path })
SetupSave ==
    /\ setupPhase = "save"
    /\ \E ok \in BOOLEAN :
         IF ok
           THEN /\ setupPhase' = "passed"
                /\ authSaved' = TRUE
                /\ UNCHANGED setupRetry
           ELSE /\ SetupAttemptFailed
                /\ UNCHANGED authSaved
    /\ UNCHANGED <<setupLogins, testPhase, testRetry, testLogins>>
    /\ UNCHANGED nonRunVars

\* the dependency on setup is not honoured: a test starts whatever the
\* setup project did
TestStartUnguarded(t) ==
    /\ testPhase[t] = "pending"
    /\ testPhase' = [testPhase EXCEPT ![t] = "beforeEach"]
    /\ UNCHANGED <<setupPhase, setupRetry, setupLogins, authSaved, testRetry,
                   testLogins>>
    /\ UNCHANGED nonRunVars

\* playwright.config.js:52-56  a test of the project that depends on setup
\* starts once the setup project has passed; it begins with its beforeEach
TestStart(t) ==
    /\ setupPhase = "passed"
    /\ testPhase[t] = "pending"
    /\ testPhase' = [testPhase EXCEPT ![t] = "beforeEach"]
    /\ UNCHANGED <<setupPhase, setupRetry, setupLogins, authSaved, testRetry,
                   testLogins>>
    /\ UNCHANGED nonRunVars

\* playwright.config.js:23  the test's attempt has failed: the runner retries
\* it or gives up
TestAttemptFailed(t) ==
    IF CanRetry(testRetry[t])
      THEN /\ testRetry' = [testRetry EXCEPT ![t] = @ + 1]
           /\ testPhase' = [testPhase EXCEPT ![t] = "pending"]
      ELSE /\ testPhase' = [testPhase EXCEPT ![t] = "failed"]
           /\ UNCHANGED testRetry

\* tests/administration/unit-type/unit-type.spec.js:36-50 (and the beforeEach
\* of the organogram, roles-permissions and user-management suites):
\* loginPage.gotoLoginPage() and loginPage.login(...) before every test
TestBeforeEach(t) ==
    /\ testPhase[t] = "beforeEach"
    /\ testLogins' = testLogins + 1
    /\ \E ok \in BOOLEAN :
         IF ok
           THEN /\ testPhase' = [testPhase EXCEPT ![t] = "running"]
                /\ UNCHANGED testRetry
           ELSE TestAttemptFailed(t)
    /\ UNCHANGED <<setupPhase, setupRetry, setupLogins, authSaved>>
    /\ UNCHANGED nonRunVars

\* the body of the test passes, or fails and is retried
TestEnd(t) ==
    /\ testPhase[t] = "running"
    /\ \E ok \in BOOLEAN :
         IF ok
           THEN /\ testPhase' = [testPhase EXCEPT ![t] = "passed"]
                /\ UNCHANGED testRetry
           ELSE TestAttemptFailed(t)
    /\ UNCHANGED <<setupPhase, setupRetry, setupLogins, authSaved, testLogins>>
    /\ UNCHANGED nonRunVars

\* playwright.config.js:55  dependencies: ['setup']: the tests of a project
\* whose dependency failed do not run
TestSkip(t) ==
    /\ setupPhase = "failed"
    /\ testPhase[t] = "pending"
    /\ testPhase' = [testPhase EXCEPT ![t] = "skipped"]
    /\ UNCHANGED <<setupPhase, setupRetry, setupLogins, authSaved, testRetry,
                   testLogins>>
    /\ UNCHANGED nonRunVars

RunNext ==
    \/ SetupStart
    \/ SetupLogin
    \/ SetupSave
    \/ \E t \in Tests : \/ TestStart(t)
                        \/ TestBeforeEach(t)
                        \/ TestEnd(t)
                        \/ TestSkip(t)

(* ------------- tests/unit-type.spec.js and utils/csv-reader.js ---------- *)

\* the values of the column 'Name (English)'
RecordNames == {"Battalion", "Brigade"}

RECURSIVE SeqsUpTo(_)
\* the sequences of at most n records
SeqsUpTo(n) ==
    IF n = 0 THEN {<<>>}
    ELSE LET shorter == SeqsUpTo(n - 1)
         IN  shorter \cup {Append(q, x) : q \in {r \in shorter : Len(r) = n - 1},
                                          x \in RecordNames}

NoCsv == [present |-> FALSE, rows |-> <<>>]

CsvFiles == {NoCsv} \cup {[present |-> TRUE, rows |-> q] : q \in SeqsUpTo(MaxRows)}

\* csv-reader.js:1-3  the module binds fs and path only: the name parse used
\* at line 8 is bound nowhere
ParseIsDefined == FALSE

\* csv-reader.js:5-17  readCSV: read the file, parse it, and wrap whatever is
\* thrown in a new Error
readCSV(f) ==
    IF ~f.present THEN [ok |-> FALSE, records |-> <<>>]
    ELSE IF ~ParseIsDefined THEN [ok |-> FALSE, records |-> <<>>]
    ELSE [ok |-> TRUE, records |-> f.rows]

RegInit ==
    /\ regPhase = "start"
    /\ csvFile = NoCsv
    /\ testData = <<>>
    /\ created = <<>>
    /\ placeholder = FALSE

\* the data file as it is when the runner starts
PrepareCsv ==
    /\ regPhase = "start"
    /\ \E f \in CsvFiles : csvFile' = f
    /\ regPhase' = "unloaded"
    /\ UNCHANGED <<testData, created, placeholder>>
    /\ UNCHANGED nonRegVars

\* unit-type.spec.js:7  let testData = []  (line 9 only registers the hook)
ModuleLoad ==
    /\ regPhase = "unloaded"
    /\ testData' = <<>>
    /\ regPhase' = "describe"
    /\ UNCHANGED <<csvFile, created, placeholder>>
    /\ UNCHANGED nonRegVars

\* unit-type.spec.js:22-48  the callback of test.describe runs while the file
\* is being loaded: one test per entry of testData, or the skipped
\* placeholder when testData is empty
Describe ==
    /\ regPhase = "describe"
    /\ IF Len(testData) > 0
         THEN created' = testData /\ placeholder' = FALSE
         ELSE created' = <<>> /\ placeholder' = TRUE
    /\ regPhase' = "collected"
    /\ UNCHANGED <<csvFile, testData>>
    /\ UNCHANGED nonRegVars

\* unit-type.spec.js:9-20  the beforeAll hook, run by the worker after
\* collection: load the data, reject an empty result, rethrow any error
BeforeAll ==
    /\ regPhase = "collected"
    /\ LET r == readCSV(csvFile)
       IN  IF r.ok
             THEN /\ testData' = r.records
                  /\ regPhase' = IF Len(r.records) = 0 THEN "hookFailed" ELSE "loaded"
             ELSE /\ regPhase' = "hookFailed"
                  /\ UNCHANGED testData
    /\ UNCHANGED <<csvFile, created, placeholder>>
    /\ UNCHANGED nonRegVars

RegNext ==
    \/ PrepareCsv
    \/ ModuleLoad
    \/ Describe
    \/ BeforeAll

(* ---------------- utils/error-handler.js: handleNotFound ---------------- *)

\* what the promise of action() is fulfilled with
ActionResults == {"clicked", "filled"}

\* what the promise of action() is rejected with
ActionErrors == {"NotFound", "Timeout"}

NfInit ==
    /\ nfPc = "idle"
    /\ nfMax = 0
    /\ nfAttempt = 0
    /\ nfCalls = <<>>
    /\ nfWaits = <<>>
    /\ nfResult = "none"

\* error-handler.js:198-199  handleNotFound(selector, maxRetries, action):
\* the call begins with attempt = 1
NotFoundCall ==
    /\ nfPc \in {"idle", "returned", "thrown"}
    /\ \E m \in 0..MaxAttempts : nfMax' = m
    /\ nfAttempt' = 1
    /\ nfCalls' = <<>>
    /\ nfWaits' = <<>>
    /\ nfResult' = "none"
    /\ nfPc' = "loop"
    /\ UNCHANGED nonNfVars

\* error-handler.js:199  attempt <= maxRetries; past the loop the function
\* ends without a return statement
NotFoundLoop ==
    /\ nfPc = "loop"
    /\ IF nfAttempt <= nfMax
         THEN nfPc' = "try" /\ UNCHANGED nfResult
         ELSE nfPc' = "returned" /\ nfResult' = "undefined"
    /\ UNCHANGED <<nfMax, nfAttempt, nfCalls, nfWaits>>
    /\ UNCHANGED nonNfVars

\* one attempt too few: the attempt before the last is taken for the last
IsLastAttemptEarly(attempt, maxRetries) == attempt >= maxRetries - 1

\* error-handler.js:204  if (attempt === maxRetries)
IsLastAttempt(attempt, maxRetries) == attempt = maxRetries

\* error-handler.js:200-211  return await action(), or catch its error and
\* throw it when this was the last attempt
NotFoundTry ==
    /\ nfPc = "try"
    /\ \E r \in ActionResults \cup ActionErrors :
         /\ nfCalls' = Append(nfCalls, r)
         /\ IF r \in ActionResults
              THEN nfPc' = "returned" /\ nfResult' = r
              ELSE IF IsLastAttempt(nfAttempt, nfMax)
                     THEN nfPc' = "thrown" /\ nfResult' = r
                     ELSE nfPc' = "wait" /\ UNCHANGED nfResult
    /\ UNCHANGED <<nfMax, nfAttempt, nfWaits>>
    /\ UNCHANGED nonNfVars

\* error-handler.js:213  the wait before the next attempt
Backoff(attempt) == BackoffBase * attempt

\* error-handler.js:212-213 and the attempt++ of line 199
NotFoundWait ==
    /\ nfPc = "wait"
    /\ nfWaits' = Append(nfWaits, Backoff(nfAttempt))
    /\ nfAttempt' = nfAttempt + 1
    /\ nfPc' = "loop"
    /\ UNCHANGED <<nfMax, nfCalls, nfResult>>
    /\ UNCHANGED nonNfVars

NotFoundNext ==
    \/ NotFoundCall
    \/ NotFoundLoop
    \/ NotFoundTry
    \/ NotFoundWait

\* the suite before the helper a specification is about has been called
BaseInit ==
    /\ AuthInit
    /\ RunInit
    /\ RegInit
    /\ NfInit

(* -------------- utils/error-handler.js: handleNetworkError -------------- *)

\* the delays the function is called with: the default and a longer one
Delays == {DefaultDelay, 2 * DefaultDelay}

NetInit ==
    /\ BaseInit
    /\ call = [pc |-> "idle", max |-> 0, delay |-> DefaultDelay, attempt |-> 0,
              calls |-> <<>>, waits |-> <<>>, lastError |-> "undefined",
              result |-> "none"]

\* error-handler.js:254-257  handleNetworkError(action, maxRetries, delay):
\* let lastError; attempt = 1
NetworkCall ==
    /\ call.pc \in {"idle", "returned", "thrown"}
    /\ \E m \in 0..MaxAttempts, d \in Delays :
         call' = [pc |-> "loop", max |-> m, delay |-> d, attempt |-> 1,
                 calls |-> <<>>, waits |-> <<>>, lastError |-> "undefined",
                 result |-> "none"]
    /\ UNCHANGED nonCallVars

\* error-handler.js:257 and 278  attempt <= maxRetries; past the loop,
\* throw lastError
NetworkLoop ==
    /\ call.pc = "loop"
    /\ call' = IF call.attempt <= call.max
                THEN [call EXCEPT !.pc = "try"]
                ELSE [call EXCEPT !.pc = "thrown", !.result = call.lastError]
    /\ UNCHANGED nonCallVars

\* error-handler.js:258-269  return await action(), or catch its error, keep
\* it as lastError and throw it when this was the last attempt
NetworkTry ==
    /\ call.pc = "try"
    /\ \E r \in ActionResults \cup ActionErrors :
         call' = IF r \in ActionResults
                  THEN [call EXCEPT !.calls = Append(@, r), !.pc = "returned",
                                   !.result = r]
                  ELSE IF IsLastAttempt(call.attempt, call.max)
                         THEN [call EXCEPT !.calls = Append(@, r),
                                          !.lastError = r,
                                          !.pc = "thrown", !.result = r]
                         ELSE [call EXCEPT !.calls = Append(@, r),
                                          !.lastError = r, !.pc = "wait"]
    /\ UNCHANGED nonCallVars

\* the delay grows with the attempt, as handleNotFound's does
NetworkDelayGrowing(delay, attempt) == delay * attempt

\* error-handler.js:274  waitForTimeout(delay)
NetworkDelay(delay, attempt) == delay

\* error-handler.js:271-274 and the attempt++ of line 257
NetworkWait ==
    /\ call.pc = "wait"
    /\ call' = [call EXCEPT !.waits = Append(@, NetworkDelay(call.delay, call.attempt)),
                          !.attempt = @ + 1,
                          !.pc = "loop"]
    /\ UNCHANGED nonCallVars

NetworkNext ==
    \/ NetworkCall
    \/ NetworkLoop
    \/ NetworkTry
    \/ NetworkWait

(* ---------------- utils/error-handler.js: handleTimeout ----------------- *)

\* error-handler.js:233  the needle of error.message.includes('timeout')
Needle == <<"t", "i", "m", "e", "o", "u", "t">>

\* error.message: the TimeoutError of a Playwright action whose time limit
\* passed, two other timeouts, two errors that are no timeout, and an error
\* that is no timeout with 'timeout' in an option's name
Messages ==
    { <<"T", "i", "m", "e", "o", "u", "t", " ", "3", "0", "0", "0",
        "0", "m", "s", " ", "e", "x", "c", "e", "e", "d", "e", "d",
        ".">>,
      <<"N", "a", "v", "i", "g", "a", "t", "i", "o", "n", " ", "t",
        "i", "m", "e", "o", "u", "t", " ", "o", "f", " ", "3", "0",
        "0", "0", "0", " ", "m", "s", " ", "e", "x", "c", "e", "e",
        "d", "e", "d">>,
      <<"R", "e", "q", "u", "e", "s", "t", " ", "t", "i", "m", "e",
        "o", "u", "t">>,
      <<"E", "l", "e", "m", "e", "n", "t", " ", "n", "o", "t", " ",
        "f", "o", "u", "n", "d">>,
      <<"E", "l", "e", "m", "e", "n", "t", " ", "i", "s", " ", "n",
        "o", "t", " ", "a", "t", "t", "a", "c", "h", "e", "d", " ",
        "t", "o", " ", "t", "h", "e", " ", "D", "O", "M">>,
      <<"U", "n", "k", "n", "o", "w", "n", " ", "o", "p", "t", "i",
        "o", "n", ":", " ", "t", "i", "m", "e", "o", "u", "t">> }

\* error.name: TimeoutError for an error of the timeout class, Error otherwise
ErrorNames == {"TimeoutError", "Error"}

\* how a promise settles: fulfilled with a value or rejected with an error
Fulfilled == {[ok |-> TRUE, name |-> "", message |-> <<>>, value |-> v] :
                 v \in ActionResults}

Rejected == {[ok |-> FALSE, name |-> n, message |-> m, value |-> ""] :
                n \in ErrorNames, m \in Messages}

NotSettled == [ok |-> FALSE, name |-> "none", message |-> <<>>, value |-> ""]

\* String.prototype.includes: needle occurs in text as a contiguous run of
\* characters, case and all
Includes(text, needle) ==
    \E i \in 0..(Len(text) - Len(needle)) :
        SubSeq(text, i + 1, i + Len(needle)) = needle

\* error-handler.js:233  error.message.includes('timeout')
LooksLikeTimeout(error) == Includes(error.message, Needle)

TmoInit ==
    /\ BaseInit
    /\ call = [pc |-> "idle", primary |-> NotSettled, fallback |-> NotSettled,
              primaryCalls |-> 0, fallbackCalls |-> 0, result |-> NotSettled]

\* error-handler.js:229  handleTimeout(primaryAction, fallbackAction)
TimeoutCall ==
    /\ call.pc \in {"idle", "returned", "thrown"}
    /\ call' = [pc |-> "primary", primary |-> NotSettled, fallback |-> NotSettled,
               primaryCalls |-> 0, fallbackCalls |-> 0, result |-> NotSettled]
    /\ UNCHANGED nonCallVars

\* error-handler.js:230-232  return await primaryAction(), or catch its error
TimeoutPrimary ==
    /\ call.pc = "primary"
    /\ \E r \in Fulfilled \cup Rejected :
         call' = IF r.ok
                  THEN [call EXCEPT !.primary = r, !.primaryCalls = @ + 1,
                                   !.pc = "returned", !.result = r]
                  ELSE [call EXCEPT !.primary = r, !.primaryCalls = @ + 1,
                                   !.pc = "catch"]
    /\ UNCHANGED nonCallVars

\* error-handler.js:233-237  go on to the fallback when the message contains
\* 'timeout', otherwise throw the error that was caught
TimeoutCatch ==
    /\ call.pc = "catch"
    /\ call' = IF LooksLikeTimeout(call.primary)
                THEN [call EXCEPT !.pc = "fallback"]
                ELSE [call EXCEPT !.pc = "thrown", !.result = call.primary]
    /\ UNCHANGED nonCallVars

\* error-handler.js:235  return await fallbackAction()
TimeoutFallback ==
    /\ call.pc = "fallback"
    /\ \E r \in Fulfilled \cup Rejected :
         call' = [call EXCEPT !.fallback = r, !.fallbackCalls = @ + 1,
                            !.pc = IF r.ok THEN "returned" ELSE "thrown",
                            !.result = r]
    /\ UNCHANGED nonCallVars

TimeoutNext ==
    \/ TimeoutCall
    \/ TimeoutPrimary
    \/ TimeoutCatch
    \/ TimeoutFallback

(* ------------------- pages/base.page.js: clickButton ------------------- *)

\* options.retries: not given, or a number from 0 on
NoRetriesOption == [given |-> FALSE, retries |-> 0]

RetriesOptions ==
    {NoRetriesOption} \cup {[given |-> TRUE, retries |-> n] : n \in 0..MaxAttempts}

\* base.page.js:135  const maxRetries = options.retries || 3: the default
\* replaces every falsy value, a given 0 as well as undefined
ClickMaxRetries(opt) ==
    IF opt.given /\ opt.retries # 0 THEN opt.retries ELSE DefaultRetries

\* how one pass through the try block ends: the click is done, or one of
\* waitForElement, scrollIntoViewIfNeeded and click throws
AttemptOutcomes == {"clicked", "waitFailed", "scrollFailed", "clickFailed"}

ClkInit ==
    /\ BaseInit
    /\ call = [pc |-> "idle", opt |-> NoRetriesOption, max |-> 0, i |-> 0,
              attempts |-> <<>>, clicks |-> 0, waits |-> <<>>, result |-> "none"]

\* base.page.js:131-138  clickButton(selector, options): maxRetries, i = 0
ClickCall ==
    /\ call.pc \in {"idle", "returned", "thrown"}
    /\ \E o \in RetriesOptions :
         call' = [pc |-> "loop", opt |-> o, max |-> ClickMaxRetries(o), i |-> 0,
                 attempts |-> <<>>, clicks |-> 0, waits |-> <<>>,
                 result |-> "none"]
    /\ UNCHANGED nonCallVars

\* base.page.js:138 and 159-161  i < maxRetries; past the loop, throw the
\* error 'Failed to click element after N attempts'
ClickLoop ==
    /\ call.pc = "loop"
    /\ call' = IF call.i < call.max
                THEN [call EXCEPT !.pc = "try"]
                ELSE [call EXCEPT !.pc = "thrown", !.result = "FailedToClick"]
    /\ UNCHANGED nonCallVars

\* base.page.js:139-151  the try block: wait, scroll, click and return, or
\* catch the error
ClickTry ==
    /\ call.pc = "try"
    /\ \E r \in AttemptOutcomes :
         call' = IF r = "clicked"
                  THEN [call EXCEPT !.attempts = Append(@, r), !.clicks = @ + 1,
                                   !.pc = "returned", !.result = "undefined"]
                  ELSE [call EXCEPT !.attempts = Append(@, r), !.pc = "catch"]
    /\ UNCHANGED nonCallVars

\* the wait is made after every failed attempt, the last included
WaitsAfterEvery(i, maxRetries) == i < maxRetries

\* base.page.js:152  if (i < maxRetries - 1)
WaitsBeforeRetry(i, maxRetries) == i < maxRetries - 1

\* base.page.js:150-156  the catch block and the i++ of line 138
ClickCatch ==
    /\ call.pc = "catch"
    /\ call' = IF WaitsBeforeRetry(call.i, call.max)
                THEN [call EXCEPT !.waits = Append(@, ClickRetryWait),
                                 !.i = @ + 1, !.pc = "loop"]
                ELSE [call EXCEPT !.i = @ + 1, !.pc = "loop"]
    /\ UNCHANGED nonCallVars

ClickNext ==
    \/ ClickCall
    \/ ClickLoop
    \/ ClickTry
    \/ ClickCatch

(* ---------------- pages/base.page.js: withErrorHandling ---------------- *)

\* base.page.js:332-336  new Error('Action failed: ...' + error.message ...):
\* an Error that quotes the message of the action's error
ActionFailed(error) ==
    [ok |-> FALSE, name |-> "ActionFailed", message |-> error.message,
     value |-> ""]

WehInit ==
    /\ BaseInit
    /\ call = [pc |-> "idle", action |-> NotSettled, shots |-> 0,
              shot |-> NotSettled, result |-> NotSettled]

\* base.page.js:317-318  withErrorHandling(action, actionName)
WehCall ==
    /\ call.pc \in {"idle", "returned", "thrown"}
    /\ call' = [pc |-> "action", action |-> NotSettled, shots |-> 0,
               shot |-> NotSettled, result |-> NotSettled]
    /\ UNCHANGED nonCallVars

\* base.page.js:318-320  return await action(), or catch its error
WehAction ==
    /\ call.pc = "action"
    /\ \E r \in Fulfilled \cup Rejected :
         call' = IF r.ok
                  THEN [call EXCEPT !.action = r, !.pc = "returned", !.result = r]
                  ELSE [call EXCEPT !.action = r, !.pc = "screenshot"]
    /\ UNCHANGED nonCallVars

\* the screenshot is taken outside a try of its own
WehScreenshotUnguarded ==
    /\ call.pc = "screenshot"
    /\ \E r \in {[ok |-> TRUE, name |-> "", message |-> <<>>, value |-> "png"]}
                 \cup Rejected :
         call' = IF r.ok
                  THEN [call EXCEPT !.shots = @ + 1, !.shot = r, !.pc = "throw"]
                  ELSE [call EXCEPT !.shots = @ + 1, !.shot = r, !.pc = "thrown",
                                   !.result = r]
    /\ UNCHANGED nonCallVars

\* base.page.js:325-330  page.screenshot inside its own try: its error is
\* logged and dropped
WehScreenshot ==
    /\ call.pc = "screenshot"
    /\ \E r \in {[ok |-> TRUE, name |-> "", message |-> <<>>, value |-> "png"]}
                 \cup Rejected :
         call' = [call EXCEPT !.shots = @ + 1, !.shot = r, !.pc = "throw"]
    /\ UNCHANGED nonCallVars

\* base.page.js:332-336  throw new Error('Action failed ...')
WehThrow ==
    /\ call.pc = "throw"
    /\ call' = [call EXCEPT !.pc = "thrown", !.result = ActionFailed(call.action)]
    /\ UNCHANGED nonCallVars

HandlingNext ==
    \/ WehCall
    \/ WehAction
    \/ WehScreenshot
    \/ WehThrow

(* --------------------------- utils/logger.js --------------------------- *)

\* logger.js:32-37  Logger.LEVELS, the level number of each entry
LEVELS == [DEBUG |-> 0, INFO |-> 1, WARN |-> 2, ERROR |-> 3]

\* the names the constructor is given as minLevel: the four keys of LEVELS,
\* and one that is no key of it
MinLevelNames == {"DEBUG", "INFO", "WARN", "ERROR", "debug"}

\* logger.js:41  this.minLevel = Logger.LEVELS[minLevel]: the entry, or
\* undefined when minLevel is no key of LEVELS
LookupLevel(name) ==
    IF name \in DOMAIN LEVELS THEN [defined |-> TRUE, level |-> LEVELS[name]]
    ELSE [defined |-> FALSE, level |-> 0]

\* the filter lets through only what is above the minimum
shouldLogStrict(level, minLevel) == level > minLevel.level

\* logger.js:103-105  level.level >= this.minLevel.level
shouldLog(level, minLevel) == level >= minLevel.level

LogInit ==
    /\ BaseInit
    /\ call = [made |-> FALSE, minLevel |-> LookupLevel("DEBUG"), calls |-> <<>>,
              out |-> <<>>, threw |-> FALSE]

\* logger.js:39-43  new Logger(testName, minLevel)
LoggerNew ==
    /\ \E name \in MinLevelNames :
         call' = [made |-> TRUE, minLevel |-> LookupLevel(name), calls |-> <<>>,
                 out |-> <<>>, threw |-> FALSE]
    /\ UNCHANGED nonCallVars

\* one of debug, info, warn, error: return when shouldLog says no, otherwise
\* format and write to the console; reading .level of an undefined minLevel
\* throws a TypeError
LogMethod(levelName, console) ==
    /\ call.made
    /\ Len(call.calls) < MaxLogCalls
    /\ call' = IF ~call.minLevel.defined
                THEN [call EXCEPT !.calls = Append(@, levelName), !.threw = TRUE]
                ELSE IF shouldLog(LEVELS[levelName], call.minLevel)
                       THEN [call EXCEPT !.calls = Append(@, levelName),
                                        !.out = Append(@, <<levelName, console>>)]
                       ELSE [call EXCEPT !.calls = Append(@, levelName)]
    /\ UNCHANGED nonCallVars

\* logger.js:119-124
LogDebug == LogMethod("DEBUG", "console.log")

\* logger.js:135-140
LogInfo == LogMethod("INFO", "console.log")

\* logger.js:151-156
LogWarn == LogMethod("WARN", "console.warn")

\* logger.js:167-172
LogError == LogMethod("ERROR", "console.error")

LoggerNext ==
    \/ LoggerNew
    \/ LogDebug
    \/ LogInfo
    \/ LogWarn
    \/ LogError

(* ------------------ utils/csv-reader.js: setChecked -------------------- *)

\* JavaScript values of the two types that meet in the comparisons below
JsBool(b) == [t |-> "boolean", b |-> b, s |-> ""]

JsString(str) == [t |-> "string", b |-> FALSE, s |-> str]

\* x !== y: true unless both the type and the value are the same
StrictNotEqual(x, y) == ~(x.t = y.t /\ x.b = y.b /\ x.s = y.s)

\* what setChecked is given as shouldBeChecked: a boolean, or the text of a
\* CSV cell
WantedValues == {JsBool(TRUE), JsBool(FALSE), JsString("true"), JsString("false")}

BoxInit ==
    /\ BaseInit
    /\ call = [pc |-> "idle", checked |-> FALSE, want |-> JsBool(FALSE),
              isChecked |-> FALSE, history |-> <<>>]

\* the checkbox as the page shows it before the calls
BoxRender ==
    /\ call.pc = "idle"
    /\ \E b \in BOOLEAN : call' = [call EXCEPT !.checked = b, !.pc = "ready"]
    /\ UNCHANGED nonCallVars

\* csv-reader.js:22  setChecked(checkbox, shouldBeChecked)
SetCheckedCall ==
    /\ call.pc = "ready"
    /\ Len(call.history) < MaxSetCalls
    /\ \E v \in WantedValues : call' = [call EXCEPT !.want = v, !.pc = "read"]
    /\ UNCHANGED nonCallVars

\* csv-reader.js:23  const isChecked = await checkbox.isChecked()
SetCheckedRead ==
    /\ call.pc = "read"
    /\ call' = [call EXCEPT !.isChecked = call.checked, !.pc = "compare"]
    /\ UNCHANGED nonCallVars

\* the click is made when the states agree
ClicksWhenEqual(isChecked, shouldBeChecked) ==
    ~StrictNotEqual(JsBool(isChecked), shouldBeChecked)

\* csv-reader.js:24  if (isChecked !== shouldBeChecked)
ClicksWhen(isChecked, shouldBeChecked) ==
    StrictNotEqual(JsBool(isChecked), shouldBeChecked)

\* csv-reader.js:24-26  click when the two differ; a click toggles the box
SetCheckedClick ==
    /\ call.pc = "compare"
    /\ LET click == ClicksWhen(call.isChecked, call.want)
           after == IF click THEN ~call.checked ELSE call.checked
       IN  call' = [call EXCEPT
                     !.checked = after,
                     !.history = Append(@, [want |-> call.want,
                                            before |-> call.checked,
                                            clicks |-> IF click THEN 1 ELSE 0,
                                            after |-> after]),
                     !.pc = "ready"]
    /\ UNCHANGED nonCallVars

CheckedNext ==
    \/ BoxRender
    \/ SetCheckedCall
    \/ SetCheckedRead
    \/ SetCheckedClick

(* ------- pages/unit-type/unit-type-form.page.js: fillForm -------------- *)

\* a cell of the data row: a text, or no such column
NoCell == [present |-> FALSE, text |-> ""]

Cell(text) == [present |-> TRUE, text |-> text]

Cells == {NoCell, Cell(""), Cell("true"), Cell("TRUE"), Cell("false")}

\* data['Depot'] || '': an absent or empty cell gives the empty text
OrEmpty(cell) == IF cell.present /\ cell.text # "" THEN cell.text ELSE ""

\* text.toLowerCase(), on the texts of Cells
toLowerCase(text) ==
    CASE text = "TRUE" -> "true"
      [] text = "FALSE" -> "false"
      [] OTHER -> text

\* the state a cell of the data row asks for: checked when it says true
Requested(cell) == toLowerCase(OrEmpty(cell)) = "true"

FormInit ==
    /\ BaseInit
    /\ call = [pc |-> "idle", data |-> [Depot |-> NoCell, Workshop |-> NoCell],
               depot |-> FALSE, workshop |-> FALSE,
               isDepot |-> "", isWorkshop |-> "",
               depotChecked |-> FALSE, workshopChecked |-> FALSE,
               before |-> [Depot |-> FALSE, Workshop |-> FALSE],
               clicked |-> [Depot |-> FALSE, Workshop |-> FALSE]]

\* unit-type-form.page.js fillForm(data), on a form whose two checkboxes
\* are in any state
FillFormCall ==
    /\ call.pc = "idle"
    /\ \E d \in Cells, w \in Cells, b \in BOOLEAN, c \in BOOLEAN :
          call' = [call EXCEPT
                     !.data = [Depot |-> d, Workshop |-> w],
                     !.depot = b, !.workshop = c,
                     !.before = [Depot |-> b, Workshop |-> c],
                     !.pc = "cells"]
    /\ UNCHANGED nonCallVars

\* unit-type-form.page.js:65-66  isDepot, isWorkshop
FillFormCells ==
    /\ call.pc = "cells"
    /\ call' = [call EXCEPT
                  !.isDepot = toLowerCase(OrEmpty(call.data.Depot)),
                  !.isWorkshop = toLowerCase(OrEmpty(call.data.Workshop)),
                  !.pc = "boxes"]
    /\ UNCHANGED nonCallVars

\* unit-type-form.page.js:68-69  depotChecked, workshopChecked
FillFormBoxes ==
    /\ call.pc = "boxes"
    /\ call' = [call EXCEPT
                  !.depotChecked = call.depot,
                  !.workshopChecked = call.workshop,
                  !.pc = "depot"]
    /\ UNCHANGED nonCallVars

\* unit-type-form.page.js:71  if (isDepot !== depotChecked) click
FillFormDepot ==
    /\ call.pc = "depot"
    /\ LET click == StrictNotEqual(JsString(call.isDepot),
                                   JsBool(call.depotChecked))
       IN  call' = [call EXCEPT
                      !.depot = IF click THEN ~@ ELSE @,
                      !.clicked.Depot = click,
                      !.pc = "workshop"]
    /\ UNCHANGED nonCallVars

\* unit-type-form.page.js:72  if (isWorkshop !== workshopChecked) click
FillFormWorkshop ==
    /\ call.pc = "workshop"
    /\ LET click == StrictNotEqual(JsString(call.isWorkshop),
                                   JsBool(call.workshopChecked))
       IN  call' = [call EXCEPT
                      !.workshop = IF click THEN ~@ ELSE @,
                      !.clicked.Workshop = click,
                      !.pc = "done"]
    /\ UNCHANGED nonCallVars

FormNext ==
    \/ FillFormCall
    \/ FillFormCells
    \/ FillFormBoxes
    \/ FillFormDepot
    \/ FillFormWorkshop

(* --------------------------- specifications ---------------------------- *)

\* no helper has been called
CallInit == call = [pc |-> "idle"]

Init ==
    /\ BaseInit
    /\ CallInit

Next == AuthNext

Spec == Init /\ [][Next]_vars

SpecRun == Init /\ [][RunNext]_vars

SpecReg == Init /\ [][RegNext]_vars

SpecNotFound == Init /\ [][NotFoundNext]_vars

SpecNetwork == NetInit /\ [][NetworkNext]_vars

SpecTimeout == TmoInit /\ [][TimeoutNext]_vars

SpecClick == ClkInit /\ [][ClickNext]_vars

SpecHandling == WehInit /\ [][HandlingNext]_vars

SpecLogger == LogInit /\ [][LoggerNext]_vars

SpecChecked == BoxInit /\ [][CheckedNext]_vars

SpecForm == FormInit /\ [][FormNext]_vars

\* ---- progress of a call ----------------------------------------------------
\* The steps of a call that cannot wait for ever: the synchronous file checks
\* (lines 38-42), the catch block, and the awaits that give up after a time,
\* chromium.launch (line 54) and the page operations of the login (lines
\* 64-87, with the limits written at lines 73 and 82-84).  newContext and
\* newPage (55-56), context.storageState (96) and browser.close (102) take no
\* time limit, and globalSetup sets none around the whole call, so nothing
\* obliges those awaits to settle.
BoundedStep(c) == StatSync(c) \/ Launch(c) \/ Login(c) \/ Catch(c)

SpecLive == Init /\ [][Next]_vars /\ \A c \in Callers : WF_vars(BoundedStep(c))

\* ---- calls in immediate succession (README "Auth issues?") --
\* The refresh procedure of the README: the auth file is removed, then the
\* suite is run, and run again.  Caller 1 makes the first call once the file
\* is away, caller c + 1 calls when caller c has returned; nobody else
\* touches the file and no time worth counting passes once the first call
\* has begun.
NobodyCalledYet == \A c \in Callers : pc[c] = "idle" /\ outcome[c] = "none"

SeqMayStart(c) ==
    /\ pc[c] = "idle" /\ outcome[c] = "none"
    /\ IF c = 1 THEN NoSession ELSE Finished(c - 1)

SeqCall(c) ==
    /\ pc[c] # "idle" \/ SeqMayStart(c)
    /\ globalSetup(c)

\* README.md:84  rm playwright/.auth/user.json
SeqInvalidate == NobodyCalledYet /\ Invalidate

SeqClockTick == NobodyCalledYet /\ ClockTick

SeqNext ==
    \/ \E c \in Callers : SeqCall(c)
    \/ SeqInvalidate
    \/ SeqClockTick

SpecSeq == Init /\ [][SeqNext]_vars

(* ------------------------------ claims --------------------------------- *)

\* caller c takes a step
Steps(c) == pc'[c] # pc[c]

\* caller c's call ends in this step
Returns(c) == pc[c] # "idle" /\ pc'[c] = "idle"

\* C1: whenever globalSetup stats a file whose age (now minus its
\* modification time) is strictly below the TTL, it returns at once as a
\* cache hit: no acquisition has been started and no browser launched.
C1_CacheHit ==
    [][\A c \in Callers :
         (pc[c] = "stat" /\ Steps(c) /\ file.exists /\ now - file.mtime < TTL)
            => /\ pc'[c] = "idle"
               /\ outcome'[c] = "hit"
               /\ acq'[c] = 0
               /\ browser'[c] = "none"]_vars

\* a call has returned as a cache hit on a file of age 30, below the TTL
C1_Witness ==
    \E c \in Callers :
        /\ Finished(c) /\ outcome[c] = "hit" /\ acq[c] = 0
        /\ file.exists /\ now - file.mtime = Tick

\* C2: single-flight: among the calls in progress at any moment at most one
\* has invoked the acquisition routine.
C2_SingleFlight ==
    Cardinality({c \in Callers : pc[c] # "idle" /\ acq[c] > 0}) <= 1

\* C3: mutual exclusion: at most one caller is between having observed the
\* file absent or stale and having finished writing it.
C3_MutualExclusion == Cardinality({c \in Callers : InFlight(c)}) <= 1

\* C4: a caller that calls while an acquisition is in flight is released
\* only when that acquisition has finished: no call has returned while an
\* acquisition it found in flight is still in flight.
C4_WaitersReleasedAtFinish ==
    [][\A d \in Callers : Returns(d) => waitsOn[d] = {}]_vars

\* C5: a call whose acquisition fails (launch, context or any step of the
\* login sequence) has not modified the file: none of its steps changes the
\* file, so the file is as the call found it unless another agent changed it.
C5_FailureIsolation ==
    /\ [](\A c \in Callers :
            (failedAt[c] \in LoginSteps) => ~wrote[c])
    /\ [][\A c \in Callers :
            (Steps(c) /\ (pc[c] \in LoginSteps \/ failedAt[c] \in LoginSteps))
               => file' = file]_vars

\* a call has failed in the login sequence while a stale snapshot exists
C5_Witness ==
    \E c \in Callers :
        /\ Finished(c) /\ outcome[c] = "error" /\ failedAt[c] = "login"
        /\ file = OldSnapshot /\ now - file.mtime >= TTL

C8_FailureSurfaced ==
    \A c \in Callers :
        (Finished(c) /\ failedAt[c] # "none") => outcome[c] = "error"

\* a call whose login sequence threw has ended, with the browser closed
C8_Witness ==
    \E c \in Callers :
        /\ Finished(c) /\ failedAt[c] = "login" /\ outcome[c] = "error"
        /\ browser[c] = "closed"

\* C9: the file is written only by the save of a call whose acquisition
\* succeeded, and a call that ends as a cache hit never changes the file.
C9_WrittenOnlyBySave ==
    [][/\ (file' # file /\ file'.exists)
             => \E c \in Callers :
                   /\ pc[c] \in {"save", "write"} /\ Steps(c)
                   /\ acq[c] = 1 /\ failedAt[c] = "none"
       /\ \A c \in Callers :
             (Steps(c) /\ pc[c] \in {"idle", "stat"}) => file' = file]_vars

\* a cache hit on a file of age 30 written by an earlier acquisition
C9_Witness ==
    \E c, d \in Callers :
        /\ c # d
        /\ Finished(c) /\ outcome[c] = "hit"
        /\ Finished(d) /\ outcome[d] = "ok" /\ wrote[d]
        /\ file.exists /\ now - file.mtime = Tick

\* C10: a reader of the file sees no file or a complete snapshot, never a
\* partially written one.
C10_AtomicReplacement == readObs \in {"none", "absent", "complete"}

\* C11: a snapshot whose age is at least the TTL, the TTL itself included,
\* is not reused: globalSetup goes on to acquire; and a fresh snapshot turns
\* stale only by the clock advancing, never by a step of a caller, a reader
\* or the operator.
C11_StaleAtTTL ==
    [][/\ \A c \in Callers :
             (pc[c] = "stat" /\ Steps(c) /\ StaleSession)
                => (pc'[c] = "launch" /\ outcome'[c] = "none")
       /\ (FreshSession /\ StaleSession') => (now' > now /\ file' = file)
      ]_vars

\* a first caller has stat'ed the earlier run's snapshot at an age of exactly
\* the TTL and is about to launch the browser
C11_Witness ==
    \E c \in Callers :
        /\ pc[c] = "launch" /\ acq[c] = 0
        /\ file = OldSnapshot /\ now - file.mtime = TTL
        /\ \A d \in Callers \ {c} : pc[d] = "idle" /\ outcome[d] = "none"

\* C12: the cache moves NoSession/Stale -> Acquiring -> Fresh or Failed, and
\* Failed falls back so that the next call acquires again: a call starts to
\* acquire only when the file is absent or stale, and a call that ends in an
\* error has persisted nothing, so it leaves no file of its own making that
\* the next call would take for a fresh snapshot.
C12_StateMachine ==
    [][\A c \in Callers :
          /\ (Steps(c) /\ pc'[c] = "launch") => (NoSession \/ StaleSession)
          /\ (Returns(c) /\ outcome'[c] = "error") => ~wrote[c]
      ]_vars

\* C13: once the file is away, the first of the calls made one after the
\* other starts an acquisition, and when that call has succeeded the call
\* after it is a cache hit that starts none: one acquisition for the pair.
C13_OneAcquisitionPerPair ==
    /\ Finished(1) => (acq[1] = 1 /\ outcome[1] # "hit")
    /\ \A c \in Callers \ {1} :
          (Finished(c - 1) /\ outcome[c - 1] \in {"ok", "hit"} /\ Finished(c))
             => (outcome[c] = "hit" /\ acq[c] = 0)

\* the first call acquired and returned, the second returned a cache hit
C13_Witness ==
    /\ Finished(1) /\ outcome[1] = "ok" /\ acq[1] = 1
    /\ Finished(2) /\ outcome[2] = "hit"

\* C14: every call that has begun eventually returns or fails: no step of it
\* waits for ever.
C14_BoundedAcquisition == \A c \in Callers : (pc[c] # "idle") ~> (pc[c] = "idle")

\* a dependent test has begun an attempt, now or earlier in the run
HasStarted(t) ==
    testPhase[t] \in {"beforeEach", "running", "passed", "failed"} \/ testRetry[t] > 0

C16_NoLoginInTests == testLogins = 0

\* C17: when a call returns successfully, what the storage path holds is the
\* whole payload that a save wrote: a reader of the file that is there gets a
\* complete snapshot back, not a truncated or a mixed one.
C17_RoundTrip ==
    [][\A c \in Callers :
          (Returns(c) /\ outcome'[c] = "ok" /\ file'.exists)
             => file'.kind = "complete"
      ]_vars

\* C18: when the CSV file holds N > 0 records the suite holds one create test
\* per record and no placeholder; the placeholder 'No test data available'
\* is registered only when there is no data.
C18_RegistrationFollowsData ==
    (regPhase \in {"collected", "loaded", "hookFailed"} /\ Len(csvFile.rows) > 0)
       => (created = csvFile.rows /\ ~placeholder)

\* every invocation of action so far was rejected
AllFailed == \A i \in 1..Len(nfCalls) : nfCalls[i] \in ActionErrors

\* C19: called with maxRetries >= 1, handleNotFound invokes action at least
\* once and at most maxRetries times, stops at the first invocation that
\* succeeds and returns its result, and throws, with the error of the last
\* invocation, exactly when all maxRetries invocations failed.
C19_RetryContract ==
    /\ nfPc # "idle" => Len(nfCalls) <= nfMax
    /\ (nfPc \in {"returned", "thrown"} /\ nfMax >= 1) =>
          /\ Len(nfCalls) >= 1
          /\ \A i \in 1..(Len(nfCalls) - 1) : nfCalls[i] \in ActionErrors
          /\ nfResult = nfCalls[Len(nfCalls)]
          /\ nfPc = "returned" => nfResult \in ActionResults
          /\ nfPc = "thrown" <=> (Len(nfCalls) = nfMax /\ AllFailed)

\* three attempts have failed, the last with another error than the first,
\* and the call has thrown the last one
C19_Witness ==
    /\ nfPc = "thrown" /\ nfMax = 3 /\ Len(nfCalls) = 3
    /\ nfCalls[1] # nfCalls[3] /\ nfResult = nfCalls[3]

\* C20: the waits between attempts grow exponentially: each wait is longer
\* than the one before it, by the same factor every time.
C20_ExponentialBackoff ==
    /\ \A i \in 2..Len(nfWaits) : nfWaits[i] > nfWaits[i - 1]
    /\ \A i \in 3..Len(nfWaits) :
          nfWaits[i] * nfWaits[i - 2] = nfWaits[i - 1] * nfWaits[i - 1]

\* C28: a browser that globalSetup launched is closed by the time the call
\* returns or throws, whichever later step failed, and a cache hit launches
\* none.
C28_BrowserReleased ==
    \A c \in Callers :
        /\ pc[c] = "idle" => browser[c] # "open"
        /\ Finished(c) /\ outcome[c] = "hit" => browser[c] = "none"

\* C29: a removal of the file between the existence check and the stat never
\* makes the call fail: the stat step ends in a cache hit or goes on to the
\* acquisition.
C29_InvalidateRace ==
    [][\A c \in Callers :
          (pc[c] = "stat" /\ Steps(c))
             => (pc'[c] = "launch" \/ (pc'[c] = "idle" /\ outcome'[c] = "hit"))
      ]_vars

\* C21: called with maxRetries >= 1, handleNetworkError waits the given
\* delay, and always that delay, between two attempts and at no other time:
\* when the call ends there is one wait fewer than attempts.  It returns the
\* result of the first attempt that succeeds, and throws, with the error of
\* the last attempt, exactly when all maxRetries attempts failed.
C21_NetworkRetry ==
    /\ \A i \in 1..Len(call.waits) : call.waits[i] = call.delay
    /\ call.pc \in {"loop", "try"} => Len(call.waits) = Len(call.calls)
    /\ call.pc = "wait" => Len(call.waits) = Len(call.calls) - 1
    /\ (call.pc \in {"returned", "thrown"} /\ call.max >= 1) =>
          /\ Len(call.calls) \in 1..call.max
          /\ Len(call.waits) = Len(call.calls) - 1
          /\ \A i \in 1..(Len(call.calls) - 1) : call.calls[i] \in ActionErrors
          /\ call.result = call.calls[Len(call.calls)]
          /\ call.pc = "returned" => call.result \in ActionResults
          /\ call.pc = "thrown" <=>
                (Len(call.calls) = call.max
                 /\ \A i \in 1..Len(call.calls) : call.calls[i] \in ActionErrors)

\* three attempts have failed with two waits of the longer delay between
\* them, and the call has thrown the last error, which differs from the first
C21_Witness ==
    /\ call.pc = "thrown" /\ call.max = 3 /\ Len(call.calls) = 3
    /\ call.waits = <<2 * DefaultDelay, 2 * DefaultDelay>>
    /\ call.calls[1] # call.calls[3] /\ call.result = call.calls[3]

\* C22: handleTimeout invokes the primary action exactly once; it invokes
\* the fallback, once, exactly when the primary failed with a timeout error;
\* any other error of the primary is thrown again as it is, and a failure of
\* the fallback is what the caller gets.
C22_FallbackOnTimeout ==
    call.pc \in {"returned", "thrown"} =>
       /\ call.primaryCalls = 1
       /\ call.fallbackCalls <= 1
       /\ call.fallbackCalls = 1
             <=> (~call.primary.ok /\ call.primary.name = "TimeoutError")
       /\ (~call.primary.ok /\ call.fallbackCalls = 0)
             => (call.pc = "thrown" /\ call.result = call.primary)
       /\ call.fallbackCalls = 1
             => (call.result = call.fallback /\ (call.pc = "thrown" <=> ~call.fallback.ok))

\* the call of clickButton has ended
ClickDone == call.pc \in {"returned", "thrown"}

\* the attempts made so far have all failed
AllClicksFailed == \A k \in 1..Len(call.attempts) : call.attempts[k] # "clicked"

\* what clickButton does whatever the number of attempts allowed: one
\* successful click at most and return right after it, 300 ms between two
\* attempts and not after the last, the error only when every attempt failed
ClickContract(limit) ==
    /\ call.pc # "idle" => Len(call.attempts) <= limit
    /\ call.clicks <= 1
    /\ \A k \in 1..Len(call.waits) : call.waits[k] = ClickRetryWait
    /\ Len(call.waits) <= Len(call.attempts)
    /\ ClickDone =>
          /\ \A k \in 1..(Len(call.attempts) - 1) : call.attempts[k] # "clicked"
          /\ Len(call.attempts) >= 1 => Len(call.waits) = Len(call.attempts) - 1
          /\ call.pc = "returned"
                <=> (call.clicks = 1 /\ call.attempts[Len(call.attempts)] = "clicked")
          /\ call.pc = "thrown"
                <=> (call.result = "FailedToClick" /\ AllClicksFailed
                     /\ Len(call.attempts) = limit)

\* C23 as stated: the attempts are limited by options.retries whenever it is
\* given, and by 3 when it is not.
C23_ClickAsStated ==
    ClickContract(IF call.opt.given THEN call.opt.retries ELSE DefaultRetries)

\* C23: clickButton makes at most options.retries attempts when that is a
\* number other than 0, and at most 3 when it is not given or is 0; within
\* that limit the contract above holds.
C23_ClickRetries ==
    ClickContract(IF call.opt.given /\ call.opt.retries # 0
                    THEN call.opt.retries ELSE DefaultRetries)

\* called with retries: 0, clickButton has failed three times, waited twice
\* and thrown
C23_Witness ==
    /\ call.pc = "thrown" /\ call.opt.given /\ call.opt.retries = 0
    /\ Len(call.attempts) = DefaultRetries
    /\ call.waits = <<ClickRetryWait, ClickRetryWait>>

\* C24: withErrorHandling returns the action's result without a screenshot
\* when the action succeeds; when the action fails it tries one screenshot
\* and then throws the 'Action failed' error, whether or not the screenshot
\* could be taken.
C24_ErrorHandling ==
    /\ call.shots <= 1
    /\ call.pc \in {"returned", "thrown"} =>
          /\ call.action.ok =>
                (call.pc = "returned" /\ call.result = call.action /\ call.shots = 0)
          /\ ~call.action.ok =>
                (call.pc = "thrown" /\ call.shots = 1
                 /\ call.result = ActionFailed(call.action))

\* the action failed, the screenshot failed too, with another error, and the
\* caller got the 'Action failed' error of the action
C24_Witness ==
    /\ call.pc = "thrown" /\ ~call.action.ok /\ call.shots = 1
    /\ ~call.shot.ok /\ call.shot.message # call.action.message
    /\ call.result.name = "ActionFailed"
    /\ call.result.message = call.action.message

\* logger.js:29  Log levels: DEBUG < INFO < WARN < ERROR
LevelOrder == <<"DEBUG", "INFO", "WARN", "ERROR">>

\* the levels of the calls that are at or above the minimum, in call order
Expected ==
    LET Rank(name) == CHOOSE k \in 1..Len(LevelOrder) : LevelOrder[k] = name
        MinRank == CHOOSE k \in 1..Len(LevelOrder) :
                      LEVELS[LevelOrder[k]] = call.minLevel.level
    IN  SelectSeq(call.calls, LAMBDA name : Rank(name) >= MinRank)

\* C25: with the minimum level one of the four, the calls that have written
\* to the console are exactly the calls whose level is at or above the
\* minimum, in the order they were made; a call below it writes nothing.
C25_LevelFilter ==
    call.minLevel.defined =>
       /\ Len(call.out) = Len(Expected)
       /\ \A k \in 1..Len(call.out) : call.out[k][1] = Expected[k]
       /\ ~call.threw

\* a logger with minimum WARN: info was dropped, warn and error were written
C25_Witness ==
    /\ call.minLevel = [defined |-> TRUE, level |-> LEVELS["WARN"]]
    /\ call.calls = <<"INFO", "WARN", "ERROR">>
    /\ call.out = <<<<"WARN", "console.warn">>, <<"ERROR", "console.error">>>>

\* C26: for a boolean v, setChecked(checkbox, v) leaves the box in state v,
\* clicks once at most and not at all when the box was in state v already;
\* two calls in a row with the same v click once at most between them.
C26_SetCheckedIdempotent ==
    /\ \A k \in 1..Len(call.history) :
          LET h == call.history[k]
          IN  h.want.t = "boolean" =>
                 /\ h.after = h.want.b
                 /\ h.clicks <= 1
                 /\ h.before = h.want.b => h.clicks = 0
    /\ \A k \in 1..(Len(call.history) - 1) :
          LET g == call.history[k]
              h == call.history[k + 1]
          IN  (g.want.t = "boolean" /\ h.want = g.want)
                 => (g.clicks + h.clicks <= 1 /\ h.clicks = 0)

\* an unchecked box, setChecked(box, true) twice: one click, then none
C26_Witness ==
    /\ Len(call.history) = 2
    /\ call.history[1] = [want |-> JsBool(TRUE), before |-> FALSE, clicks |-> 1,
                         after |-> TRUE]
    /\ call.history[2] = [want |-> JsBool(TRUE), before |-> TRUE, clicks |-> 0,
                         after |-> TRUE]

\* C27: fillForm clicks the Depot (resp. Workshop) checkbox only when its
\* checked state differs from the state the data row asks for; a checkbox
\* already in that state is left untouched.
C27_ClicksOnlyOnDifference ==
    call.pc = "done" =>
       /\ call.clicked.Depot => call.before.Depot # Requested(call.data.Depot)
       /\ call.clicked.Workshop
             => call.before.Workshop # Requested(call.data.Workshop)

====
